---- MODULE Spec2Model ----
(***************************************************************************)
(* windows-debugger: a REPL served over a local TCP socket and shown in a  *)
(* spawned PowerShell window.  The repository holds three implementations  *)
(* of the same launch / listener / session design:                         *)
(*   "js"  index.js              (password handshake, domain-wrapped)      *)
(*   "ts"  src/index.ts          (class based, async launch, no password)  *)
(*   "cs"  src/*.cs              (TcpListener, tasks, no password)         *)
(* The variable impl selects which of them a behaviour runs.               *)
(*                                                                         *)
(* Strings are sequences of one-character strings; values handed to the    *)
(* REPL are records [kind, s].                                             *)
(***************************************************************************)
EXTENDS Integers, Sequences, FiniteSets, TLC

\* ------------------------------------------------------------------ bounds
MaxConns == 2
MaxLines == 2
MaxPort == 2
MaxEvents == 5
MaxMgrs == 2
MaxCalls == 4
MaxTitleLen == 3

Conns == 1..MaxConns
Mgrs == 1..MaxMgrs
Ports == 1..MaxPort

\* ----------------------------------------------------------------- strings
IsWS(ch) == ch \in {" ", "\n"}

RECURSIVE TrimStart(_)
TrimStart(s) == IF s # <<>> /\ IsWS(Head(s)) THEN TrimStart(Tail(s)) ELSE s

RECURSIVE TrimEnd(_)
TrimEnd(s) ==
  IF s # <<>> /\ IsWS(s[Len(s)]) THEN TrimEnd(SubSeq(s, 1, Len(s) - 1)) ELSE s

\* String.prototype.trim / String.Trim
Trim(s) == TrimEnd(TrimStart(s))

\* ------------------------------------------------------------------ values
Val(k, s) == [kind |-> k, s |-> s]
Undefined == Val("undefined", <<>>)
Null == Val("null", <<>>)
Str(s) == Val("str", s)
Native(s) == Val("native", s)
ErrorOf(s) == Val("error", s)

\* A value whose conversion to text raises (a ToString override or a custom
\* inspect method that throws).
Unprintable == Val("unprintable", <<"f">>)

\* An option the caller did not supply.
Absent == Val("absent", <<>>)

\* ------------------------------------------------------------------ inputs
Impls == {"js", "ts", "cs"}
Platforms == {"win32", "linux"}
Titles == {<<"t", "'">>}
Defaults == {Null, Str(<<"r">>)}
Passwords == {<<"a">>, <<" ", "a">>}
\* crypto.randomUUID()
Token == <<"u">>
\* first data events a client can produce
Chunks == {<<"a", "\n">>, <<" ", "a", "\n">>, <<"u", "\n">>}
\* input lines: empty, blank, padded, failing
Lines == {<<>>, <<" ">>, <<" ", "a">>, <<"b">>}

\* A line whose value cannot be converted to text.
FormatLines == {<<"c">>}

\* The options object the caller passes.  Only index.js reads `password`.
\* The title is a supplied one here; SpecEscape below covers the absent
\* title and every short title.
OptionSets(i) ==
  [title : {Str(t) : t \in Titles},
   default : {Absent} \cup Defaults,
   eval : {Absent, Val("fn", <<"custom">>)},
   password : IF i = "js" THEN {Absent} \cup {Str(p) : p \in Passwords}
              ELSE {Absent}]

\* --------------------------------------------------------------- variables
VARIABLES
  impl,       \* which implementation runs
  platform,   \* process.platform / RuntimeInformation
  options,    \* the caller's options
  config,     \* the effective configuration (NoConfig before the launch)
  pc,         \* position of the launch
  server,     \* the listening socket: "none", "created", "bound", "closed"
  port,       \* the bound port, 0 while there is none
  errorLog,   \* console.error / Console.Error.WriteLine of the launch
  assertLog,  \* console.assert failures printed by index.js
  spawns,     \* calls of the terminal spawner
  swallowed,  \* errors that ended in the domain handler / an unobserved task
  escaped,    \* an error left the launch entry point or reached the host
  sess,       \* the sessions, one per connection
  address,    \* what server.address() / LocalEndpoint gave the launch
  lateErrors, \* 'error' events the server emitted after it was listening
  mgr,        \* listener managers driven directly: start and stop calls
  socks,      \* the listening sockets those managers have created
  launches,   \* the launches of a process that calls the debugger twice
  loop        \* the accept loop of a C# manager and the Dispose racing it

envVars == <<impl, platform, options, launches, loop>>
mgrVars == <<mgr, socks>>
vars == <<impl, platform, options, config, pc, server, port, errorLog,
          assertLog, spawns, swallowed, escaped, sess, address, lateErrors,
          mgr, socks, launches, loop>>

NoConfig == [title |-> <<>>, default |-> Absent, eval |-> "none",
             password |-> Absent]

NoLine == [line |-> <<>>, calls |-> <<>>, cbs |-> <<>>, text |-> <<>>]

NoSession == [st |-> "none", listener |-> FALSE, tries |-> 0, got |-> FALSE,
              first |-> <<>>, closedBy |-> "none", out |-> <<>>,
              nlines |-> 0, last |-> NoLine, via |-> "none", loops |-> 0,
              inbox |-> <<>>, cur |-> <<>>, arrived |-> <<>>, begun |-> <<>>]

\* a listener manager before its first start: the server field is null
NoManager == [server |-> 0, port |-> 0, hist |-> <<>>, raised |-> "none"]

NoOptions == [title |-> Absent, default |-> Absent, eval |-> Absent,
              password |-> Absent]

\* the two calls of the debugger in one process
LaunchIds == {"A", "B"}

\* a call of the debugger not made yet: its options, the configuration and
\* port of its closure once made, and the connection to its listener
NoLaunch == [st |-> "idle", options |-> NoOptions, config |-> NoConfig,
             port |-> 0, s |-> NoSession]
NoLaunches == [l \in LaunchIds |-> NoLaunch]

\* no accept loop running: the _server field, the listener, the position of
\* the loop and of Dispose, the exception in flight, the clients that have
\* connected, the handlers started (and those started after Dispose had
\* returned), the null dereferences, the lines written to Console.Error
NoLoop == [srv |-> "null", lst |-> "none", at |-> "none", disp |-> "none",
           exc |-> "none", clients |-> 0, handlers |-> 0, late |-> 0,
           nre |-> 0, log |-> 0]

\* ----------------------------------------------------------- configuration
\* "Windows Debugger"
DefaultTitle == <<"W">>

TitleOf(o) == IF o.title = Absent THEN DefaultTitle ELSE o.title.s
EvalOf(o) == IF o.eval = Absent THEN "native" ELSE "custom"

\* index.js: destructuring defaults apply to undefined only
JsDefaults(o) ==
  [title |-> TitleOf(o),
   default |-> IF o.default = Absent THEN Undefined ELSE o.default,
   eval |-> EvalOf(o),
   password |-> IF o.password = Absent THEN Str(Token) ELSE o.password]

\* index.ts applyDefaults: `??` replaces undefined and null
applyDefaults(o) ==
  [title |-> TitleOf(o),
   default |-> IF o.default \in {Absent, Null} THEN Undefined ELSE o.default,
   eval |-> EvalOf(o),
   password |-> Absent]

\* WindowsDebugger.ApplyDefaults: an unset Default is null
ApplyDefaults(o) ==
  [title |-> TitleOf(o),
   default |-> IF o.default \in {Absent, Null} THEN Null ELSE o.default,
   eval |-> EvalOf(o),
   password |-> Absent]

\* --------------------------------------------------------- terminal command
\* the title put between the quotes as it is
escapeNothing(str) == str

RECURSIVE escapePowerShellString(_)
escapePowerShellString(str) ==
  IF str = <<>> THEN <<>>
  ELSE (IF Head(str) = "'" THEN <<"'", "'">> ELSE <<Head(str)>>)
       \o escapePowerShellString(Tail(str))

\* the command built before the port is known
buildCommandUnbound(title, p) ==
  [title |-> escapePowerShellString(title), port |-> 0]

\* the parts of the command line that vary: the quoted title and the port
\* the client script connects to
buildCommand(title, p) == [title |-> escapePowerShellString(title), port |-> p]

\* the secret interpolated into the client script instead of the
\* environment
SpawnCallSecretInArgs(cfg, p) ==
  [cmd |-> [title |-> escapePowerShellString(cfg.title), port |-> p,
            secret |-> cfg.password],
   env |-> Absent]

\* one call of the spawner: its arguments and the REPL_PASSWORD it is given
SpawnCall(cfg, p) == [cmd |-> buildCommand(cfg.title, p), env |-> cfg.password]

\* ------------------------------------------------------------ launch errors
validateWindows(pf) == pf = "win32"

MsgPlatform == "This module only works on Windows."
MsgAddress == "Invalid server address"
MsgListen == "listen failed"
\* reading .port of a null address, or .toString() of an undefined port
MsgTypeError == "TypeError"
MsgSpawn == "spawn failed"

\* Where a failure raised during the launch ends, per implementation:
\*   "reported"  caught by the launch's try/catch, written to the error
\*               channel, rethrown into the domain / the discarded task
\*   "swallowed" reaches only the domain's empty 'error' handler
\*   "escaped"   leaves the entry point or reaches the host unhandled
\* the launch without its try/catch: only the domain handler is left
FailureRouteNoCatch(i) == "swallowed"

FailureRoute(i) ==
  CASE i = "js" -> "swallowed"
    [] i = "ts" -> "reported"
    [] i = "cs" -> "reported"

Report(msg) == [tag |-> "Failed to start Windows debugger:", msg |-> msg]

Fail(msg) ==
  LET route == FailureRoute(impl) IN
  /\ errorLog' = IF route = "reported" THEN Append(errorLog, Report(msg))
                 ELSE errorLog
  /\ swallowed' = IF route = "escaped" THEN swallowed ELSE swallowed + 1
  /\ escaped' = (escaped \/ route = "escaped")
  /\ pc' = "failed"

NoFail == UNCHANGED <<errorLog, swallowed, escaped>>

\* net.Server.address() is typed AddressInfo | string | null
Addresses == {"object", "string", "null"}

\* -------------------------------------------------------------------- Init
Init ==
  /\ impl \in Impls
  /\ platform \in Platforms
  /\ options \in OptionSets(impl)
  /\ config = NoConfig
  /\ pc = "idle"
  /\ server = "none"
  /\ port = 0
  /\ errorLog = <<>>
  /\ assertLog = <<>>
  /\ spawns = <<>>
  /\ swallowed = 0
  /\ escaped = FALSE
  /\ sess = [c \in Conns |-> NoSession]
  /\ address = "none"
  /\ lateErrors = 0
  /\ mgr = [m \in Mgrs |-> NoManager]
  /\ socks = <<>>
  /\ launches = NoLaunches
  /\ loop = NoLoop

\* ------------------------------------------------------------ launch: js
\* index.js module.exports: console.assert, net.createServer, server.listen
JsLaunch ==
  /\ impl = "js" /\ pc = "idle"
  /\ config' = JsDefaults(options)
  /\ assertLog' = IF platform = "win32" THEN assertLog
                  ELSE Append(assertLog, MsgPlatform)
  /\ server' = "created"
  /\ pc' = "listening"
  /\ UNCHANGED <<port, errorLog, spawns, swallowed, escaped, sess>>
  /\ UNCHANGED <<envVars, mgrVars, address, lateErrors>>

\* index.js server.listen callback: build the command and spawn
JsListening ==
  /\ impl = "js" /\ pc = "listening" /\ server = "created"
  /\ \E p \in Ports, addr \in Addresses, spawnOK \in BOOLEAN :
       /\ server' = "bound"
       /\ port' = p
       /\ address' = addr
       /\ IF addr # "object"
          THEN /\ Fail(MsgTypeError)
               /\ UNCHANGED spawns
          ELSE IF spawnOK
          THEN /\ spawns' = Append(spawns, SpawnCall(config, p))
               /\ pc' = "started"
               /\ NoFail
          ELSE /\ Fail(MsgSpawn)
               /\ UNCHANGED spawns
  /\ UNCHANGED <<config, assertLog, sess>>
  /\ UNCHANGED <<envVars, mgrVars, lateErrors>>

\* index.js: the server emits 'error' and nobody listens for it
JsServerError ==
  /\ impl = "js" /\ pc = "listening" /\ server = "created"
  /\ server' = "closed"
  /\ Fail(MsgListen)
  /\ UNCHANGED <<config, port, assertLog, spawns, sess>>
  /\ UNCHANGED <<envVars, mgrVars, address, lateErrors>>

\* ------------------------------------------------------------ launch: ts
\* index.ts windowsDebugger up to `await replManager.startServer()`
TsLaunch ==
  /\ impl = "ts" /\ pc = "idle"
  /\ IF validateWindows(platform)
     THEN /\ config' = applyDefaults(options)
          /\ server' = "created"
          /\ pc' = "listening"
          /\ NoFail
     ELSE /\ Fail(MsgPlatform)
          /\ UNCHANGED <<config, server>>
  /\ UNCHANGED <<port, assertLog, spawns, sess>>
  /\ UNCHANGED <<envVars, mgrVars, address, lateErrors>>

\* index.ts startServer's listen callback and the rest of windowsDebugger
TsListening ==
  /\ impl = "ts" /\ pc = "listening" /\ server = "created"
  /\ \E p \in Ports, addr \in Addresses, spawnOK \in BOOLEAN :
       /\ server' = "bound"
       /\ port' = p
       /\ address' = addr
       /\ IF addr # "object"
          THEN /\ Fail(MsgAddress)
               /\ UNCHANGED spawns
          ELSE IF spawnOK
          THEN /\ spawns' = Append(spawns, SpawnCall(config, p))
               /\ pc' = "started"
               /\ NoFail
          ELSE /\ Fail(MsgSpawn)
               /\ UNCHANGED spawns
  /\ UNCHANGED <<config, assertLog, sess>>
  /\ UNCHANGED <<envVars, mgrVars, lateErrors>>

\* index.ts: this.server.on('error', reject) while the promise is pending
TsServerError ==
  /\ impl = "ts" /\ pc = "listening" /\ server = "created"
  /\ server' = "closed"
  /\ Fail(MsgListen)
  /\ UNCHANGED <<config, port, assertLog, spawns, sess>>
  /\ UNCHANGED <<envVars, mgrVars, address, lateErrors>>

\* ------------------------------------------------------------ launch: cs
\* WindowsDebugger.Start: queue the task and return
CsStart ==
  /\ impl = "cs" /\ pc = "idle"
  /\ pc' = "scheduled"
  /\ UNCHANGED <<config, server, port, errorLog, assertLog, spawns,
                 swallowed, escaped, sess>>
  /\ UNCHANGED <<envVars, mgrVars, address, lateErrors>>

\* the task: ValidateWindows, ApplyDefaults, StartServerAsync
CsRunTask ==
  /\ impl = "cs" /\ pc = "scheduled"
  /\ IF validateWindows(platform)
     THEN /\ config' = ApplyDefaults(options)
          /\ \E p \in Ports, bindOK \in BOOLEAN :
               IF bindOK
               THEN /\ server' = "bound"
                    /\ port' = p
                    /\ address' = "object"
                    /\ pc' = "bound"
                    /\ NoFail
               ELSE /\ server' = "closed"
                    /\ Fail(MsgListen)
                    /\ UNCHANGED <<port, address>>
     ELSE /\ Fail(MsgPlatform)
          /\ UNCHANGED <<config, server, port, address>>
  /\ UNCHANGED <<assertLog, spawns, sess>>
  /\ UNCHANGED <<envVars, mgrVars, lateErrors>>

\* the task: BuildCommand and PowerShellSpawner.Spawn; a failure leaves the
\* using block, which disposes the manager
CsSpawn ==
  /\ impl = "cs" /\ pc = "bound"
  /\ \E spawnOK \in BOOLEAN :
       IF spawnOK
       THEN /\ spawns' = Append(spawns, SpawnCall(config, port))
            /\ pc' = "started"
            /\ NoFail
            /\ UNCHANGED server
       ELSE /\ server' = "closed"
            /\ Fail(MsgSpawn)
            /\ UNCHANGED spawns
  /\ UNCHANGED <<config, port, assertLog, sess>>
  /\ UNCHANGED <<envVars, mgrVars, address, lateErrors>>

\* ---------------------------------------------------------------- sessions
\* The caller's evaluator: the custom one echoes its argument, the native
\* one yields the value of the expression; both raise on the line "b" and
\* yield a value that cannot be printed on the line "c".
Evaluator(kind, command) ==
  IF Trim(command) = <<"b">>
  THEN [ok |-> FALSE, val |-> ErrorOf(<<"b">>)]
  ELSE IF Trim(command) = <<"c">>
  THEN [ok |-> TRUE, val |-> Unprintable]
  ELSE [ok |-> TRUE,
        val |-> IF kind = "custom" THEN Str(command) ELSE Native(Trim(command))]

\* ReplServerManager.FormatOutput: the placeholder for null, a string as it
\* is, ToString for the rest (which may raise).
FormatOutput(v) ==
  CASE v.kind \in {"null", "undefined", "absent"} ->
         [ok |-> TRUE, text |-> <<"null">>]
    [] v.kind = "str" -> [ok |-> TRUE, text |-> v.s]
    [] v.kind = "unprintable" -> [ok |-> FALSE, text |-> v.s]
    [] OTHER -> [ok |-> TRUE, text |-> v.s]

\* util.inspect(output, { colors: true, depth: null }): a string is quoted
\* and wrapped in the colour codes of its type, null and undefined are
\* coloured words.
Inspect(v) ==
  CASE v.kind = "null" ->
         [ok |-> TRUE, text |-> <<"ESC[1m", "null", "ESC[22m">>]
    [] v.kind \in {"undefined", "absent"} ->
         [ok |-> TRUE, text |-> <<"ESC[90m", "undefined", "ESC[39m">>]
    [] v.kind = "str" ->
         LET q == IF \E k \in DOMAIN v.s : v.s[k] = "'" THEN "\"" ELSE "'"
         IN [ok |-> TRUE,
             text |-> <<"ESC[32m", q>> \o v.s \o <<q, "ESC[39m">>]
    [] v.kind = "unprintable" -> [ok |-> FALSE, text |-> v.s]
    [] OTHER -> [ok |-> TRUE, text |-> v.s]

\* the output formatter of each implementation
Format(i, v) == IF i = "cs" THEN FormatOutput(v) ELSE Inspect(v)

\* the text written for a raised failure
ErrorText(i, msg) ==
  IF i = "cs" THEN <<"Error: ">> \o msg ELSE <<"Uncaught ">> \o msg

\* the formatter called outside the try block: its failure leaves the handler
FormatOutsideTry == FALSE

\* The formatter runs inside the try block of the line (FormatOutput in the
\* loop body, the writer inside callback(null, value)).
FormatInTry == TRUE

\* The repl's callback formats and writes the value before it returns: a
\* formatter that throws lands in the wrapper's catch, which hands the
\* failure to the callback again.
Deliver(calls, r) ==
  IF r.ok /\ ~Inspect(r.val).ok /\ FormatInTry
  THEN [calls |-> calls,
        cbs |-> <<[err |-> Null, val |-> r.val],
                  [err |-> ErrorOf(Inspect(r.val).text), val |-> Undefined]>>,
        caught |-> TRUE]
  ELSE [calls |-> calls,
        cbs |-> <<IF r.ok THEN [err |-> Null, val |-> r.val]
                  ELSE [err |-> r.val, val |-> Undefined]>>,
        caught |-> TRUE]

\* What processing one line did: the evaluator calls made (their arguments),
\* the outcome handed on ([err, val], one per delivery), and whether a raised
\* failure was caught at the line boundary.
Outcome(calls, r) ==
  [calls |-> calls,
   cbs |-> <<IF r.ok THEN [err |-> Null, val |-> r.val]
             ELSE [err |-> r.val, val |-> Undefined]>>,
   caught |-> TRUE]

\* the wrapper with the trimmed copy handed to the evaluator
JsEvalTrimmed(cfg, command) ==
  IF Trim(command) # <<>>
  THEN Deliver(<<Trim(command)>>, Evaluator(cfg.eval, Trim(command)))
  ELSE Deliver(<<>>, [ok |-> TRUE, val |-> cfg.default])

\* index.js repl eval wrapper
JsEval(cfg, command) ==
  IF Trim(command) # <<>>
  THEN Deliver(<<command>>, Evaluator(cfg.eval, command))
  ELSE Deliver(<<>>, [ok |-> TRUE, val |-> cfg.default])

\* index.ts createEvalFunction
createEvalFunction(cfg, command) ==
  LET trimmedCommand == Trim(command) IN
  IF trimmedCommand # <<>>
  THEN Deliver(<<command>>, Evaluator(cfg.eval, command))
  ELSE Deliver(<<>>, [ok |-> TRUE, val |-> cfg.default])

\* the loop body without its catch: a raised failure leaves the handler
HandleLineNoCatch(cfg, line) ==
  LET trimmedCommand == Trim(line)
      r == IF trimmedCommand = <<>> THEN [ok |-> TRUE, val |-> cfg.default]
           ELSE Evaluator(cfg.eval, line)
  IN [Outcome(IF trimmedCommand = <<>> THEN <<>> ELSE <<line>>, r)
        EXCEPT !.caught = r.ok]

\* ReplServerManager.HandleClientAsync, the body of the read loop
HandleLine(cfg, line) ==
  LET trimmedCommand == Trim(line) IN
  IF trimmedCommand = <<>>
  THEN Outcome(<<>>, [ok |-> TRUE, val |-> cfg.default])
  ELSE Outcome(<<line>>, Evaluator(cfg.eval, line))

EvalLine(i, cfg, line) ==
  CASE i = "js" -> JsEval(cfg, line)
    [] i = "ts" -> createEvalFunction(cfg, line)
    [] i = "cs" -> HandleLine(cfg, line)

\* a check that lets every first chunk through
AuthMatchesAny(data, password) == TRUE

\* data.toString().trim() !== password
AuthMatches(data, password) == Trim(data) = password.s

\* socket.on instead of socket.once: the listener stays
ListenerStays == TRUE

\* socket.once: the listener is gone once it has fired
ListenerAfterFire == FALSE

\* repl.start: the REPL writes its prompt and reads lines from now on
ReplStart(s) ==
  [s EXCEPT !.st = "active", !.out = Append(@, "prompt"), !.loops = @ + 1]

\* the destroy call left out: the stream stays as it was
DestroyForgotten(s) == s

\* socket.destroy()
Destroy(s) == [s EXCEPT !.st = "closed", !.closedBy = "auth"]

\* a connection accepted and left alone: no listener, no evaluation loop
OnConnectNoHandler(i, s) ==
  [s EXCEPT !.st = IF i = "js" THEN "awaitingAuth" ELSE "active"]

\* the connection handler of the listener
OnConnect(i, s) ==
  CASE i = "js" -> [s EXCEPT !.st = "awaitingAuth", !.listener = TRUE]
    [] i = "ts" -> ReplStart(s)
    [] i = "cs" -> [s EXCEPT !.st = "active", !.out = <<"banner", "prompt">>,
                             !.loops = @ + 1]

\* the handler without its `return`: repl.start runs on the destroyed socket
OnDataFallsThrough(cfg, s, data) ==
  LET s1 == [s EXCEPT !.tries = @ + 1,
                      !.listener = ListenerAfterFire,
                      !.got = TRUE,
                      !.first = IF s.got THEN @ ELSE data]
  IN IF ~AuthMatches(data, cfg.password) THEN ReplStart(Destroy(s1))
     ELSE ReplStart(s1)

\* the REPL attached before the check: the chunk that carried the secret
\* is read by the evaluation loop as well
OnDataFeedsChunk(cfg, s, data) ==
  LET s1 == [s EXCEPT !.tries = @ + 1,
                      !.listener = ListenerAfterFire,
                      !.got = TRUE,
                      !.first = IF s.got THEN @ ELSE data]
  IN IF ~AuthMatches(data, cfg.password) THEN Destroy(s1)
     ELSE [ReplStart(s1) EXCEPT !.nlines = @ + 1,
                                !.last.line = TrimEnd(data),
                                !.last.calls = <<TrimEnd(data)>>,
                                !.out = @ \o <<"result", "prompt">>]

\* index.js socket.once("data") handler
OnData(cfg, s, data) ==
  LET s1 == [s EXCEPT !.tries = @ + 1,
                      !.listener = ListenerAfterFire,
                      !.got = TRUE,
                      !.first = IF s.got THEN @ ELSE data]
  IN IF ~AuthMatches(data, cfg.password) THEN Destroy(s1) ELSE ReplStart(s1)

\* What one processed line leaves behind: whether it failed, whether the
\* failure was caught, and the text sent for it.
Render(i, r) ==
  LET cb == r.cbs[Len(r.cbs)]
      fmt == Format(i, cb.val)
  IN [failed |-> cb.err # Null \/ ~fmt.ok,
      caught |-> r.caught /\ (cb.err # Null \/ fmt.ok \/ FormatInTry),
      text |-> IF cb.err # Null THEN ErrorText(i, cb.err.s)
               ELSE IF fmt.ok THEN fmt.text
               ELSE ErrorText(i, fmt.text)]

\* the session after a line whose processing gave r, the prompt written
\* inside the try block: none follows an error text
WrittenPromptInTry(i, s, line, r) ==
  LET w == Render(i, r)
      s1 == [s EXCEPT !.nlines = @ + 1,
                      !.last = [line |-> line, calls |-> r.calls,
                                cbs |-> r.cbs, text |-> w.text]]
  IN [s1 EXCEPT !.out = @ \o (IF w.failed THEN <<"error">>
                               ELSE <<"result", "prompt">>)]

\* the session after a line whose processing gave r: the result or the
\* error text is written, then the next prompt
Written(i, s, line, r) ==
  LET w == Render(i, r)
      s1 == [s EXCEPT !.nlines = @ + 1,
                      !.last = [line |-> line, calls |-> r.calls,
                                cbs |-> r.cbs, text |-> w.text]]
  IN IF w.failed /\ ~w.caught
     THEN [s1 EXCEPT !.st = "closed", !.closedBy = "error", !.last.text = <<>>]
     ELSE [s1 EXCEPT !.out = @ \o <<IF w.failed THEN "error" ELSE "result",
                                    "prompt">>]

\* one line through the evaluation loop: the line is evaluated once and its
\* outcome written
ProcessLine(i, cfg, s, line) ==
  CHOOSE t \in {Written(i, s, line, r) : r \in {EvalLine(i, cfg, line)}} : TRUE

Open(s) == s.st \in {"awaitingAuth", "active"}

\* lines processed so far, over all sessions
RECURSIVE LinesUpTo(_, _)
LinesUpTo(ss, n) == IF n = 0 THEN 0 ELSE ss[n].nlines + LinesUpTo(ss, n - 1)
TotalLines(ss) == LinesUpTo(ss, MaxConns)

\* events the sessions have handled so far: accepts, data events, lines
\* and disconnects
EventsOf(s) ==
  (IF s.st = "none" THEN 0 ELSE 1) + s.tries + s.nlines + Len(s.arrived)
  + (IF s.closedBy = "client" THEN 1 ELSE 0)
RECURSIVE EventsUpTo(_, _)
EventsUpTo(ss, n) == IF n = 0 THEN 0 ELSE EventsOf(ss[n]) + EventsUpTo(ss, n - 1)
Budget == EventsUpTo(sess, MaxConns) + lateErrors < MaxEvents

\* the host the listener is bound to: server.listen(0, callback) names
\* none, which is the unspecified address (every interface);
\* new TcpListener(IPAddress.Loopback, 0)
BindHost(i) ==
  CASE i = "js" -> "any"
    [] i = "ts" -> "any"
    [] i = "cs" -> "loopback"

Interfaces == {"loopback", "external"}

\* a connection reaches a socket only through an interface it is bound to
Accepts(host, iface) == host = "any" \/ host = iface

\* the accept loop waiting for the handler it started
HandlerAwaitedInLoop == TRUE

\* _ = Task.Run(() => HandleClientAsync(client)): the handler's task is
\* discarded, the loop goes straight back to AcceptTcpClientAsync; in
\* index.js / index.ts the connection handler is an event callback
HandlerAwaited == FALSE

\* the listener can take the next connection
AcceptReady(ss) == HandlerAwaited => \A d \in Conns : ~Open(ss[d])

\* the spawned client connects to the bound listener (host 'localhost')
Connect(c) ==
  /\ Budget /\ server = "bound" /\ sess[c].st = "none"
  /\ AcceptReady(sess)
  /\ Accepts(BindHost(impl), "loopback")
  /\ sess' = [sess EXCEPT ![c] = [OnConnect(impl, @) EXCEPT !.via = "loopback"]]
  /\ UNCHANGED <<config, pc, server, port, errorLog, assertLog, spawns,
                 swallowed, escaped>>
  /\ UNCHANGED <<envVars, mgrVars, address, lateErrors>>

\* a mismatch that also closes the listener, not just the socket
AuthDataClosesListener(c) ==
  /\ Budget /\ Open(sess[c]) /\ sess[c].listener /\ sess[c].tries < MaxLines
  /\ \E data \in Chunks :
       /\ sess' = [sess EXCEPT ![c] = OnData(config, @, data)]
       /\ server' = IF AuthMatches(data, config.password) THEN server
                    ELSE "closed"
  /\ UNCHANGED <<config, pc, port, errorLog, assertLog, spawns,
                 swallowed, escaped>>
  /\ UNCHANGED <<envVars, mgrVars, address, lateErrors>>

\* a data event reaches the authentication listener
AuthData(c) ==
  /\ Budget /\ Open(sess[c]) /\ sess[c].listener /\ sess[c].tries < MaxLines
  /\ \E data \in Chunks : sess' = [sess EXCEPT ![c] = OnData(config, @, data)]
  /\ UNCHANGED <<config, pc, server, port, errorLog, assertLog, spawns,
                 swallowed, escaped>>
  /\ UNCHANGED <<envVars, mgrVars, address, lateErrors>>

\* an evaluation failure also written to the process's error channel
LineReportsFailure(c) ==
  /\ Budget /\ sess[c].st = "active" /\ TotalLines(sess) < MaxLines
  /\ \E line \in Lines :
       LET r == EvalLine(impl, config, line) IN
       /\ sess' = [sess EXCEPT ![c] = ProcessLine(impl, config, @, line)]
       /\ errorLog' = IF r.cbs[Len(r.cbs)].err # Null
                      THEN Append(errorLog, Report(r.cbs[Len(r.cbs)].err.s))
                      ELSE errorLog
  /\ UNCHANGED <<config, pc, server, port, assertLog, spawns,
                 swallowed, escaped>>
  /\ UNCHANGED <<envVars, mgrVars, address, lateErrors>>

\* the loop keeping the value of the last line as the new default
LineKeepsLastValue(c) ==
  /\ Budget /\ sess[c].st = "active" /\ TotalLines(sess) < MaxLines
  /\ \E line \in Lines :
       /\ sess' = [sess EXCEPT ![c] = ProcessLine(impl, config, @, line)]
       /\ config' = [config EXCEPT !.default = Str(line)]
  /\ UNCHANGED <<pc, server, port, errorLog, assertLog, spawns,
                 swallowed, escaped>>
  /\ UNCHANGED <<envVars, mgrVars, address, lateErrors>>

\* a line reaches the evaluation loop of an active session
Line(c) ==
  /\ Budget /\ sess[c].st = "active" /\ TotalLines(sess) < MaxLines
  /\ \E line \in Lines :
       sess' = [sess EXCEPT ![c] = ProcessLine(impl, config, @, line)]
  /\ UNCHANGED <<config, pc, server, port, errorLog, assertLog, spawns,
                 swallowed, escaped>>
  /\ UNCHANGED <<envVars, mgrVars, address, lateErrors>>

\* the client closes its end of the stream
Disconnect(c) ==
  /\ Budget /\ Open(sess[c])
  /\ sess' = [sess EXCEPT ![c] = [@ EXCEPT !.st = "closed",
                                          !.closedBy = "client",
                                          !.listener = FALSE]]
  /\ UNCHANGED <<config, pc, server, port, errorLog, assertLog, spawns,
                 swallowed, escaped>>
  /\ UNCHANGED <<envVars, mgrVars, address, lateErrors>>

\* the server emits 'error' after its listen callback has run.  index.ts:
\* the only listener is `reject` of a promise the callback has settled, so
\* nothing happens.  index.js: no listener, the event is thrown into the
\* domain.
LateServerError ==
  /\ Budget /\ impl \in {"js", "ts"} /\ server = "bound"
  /\ lateErrors' = lateErrors + 1
  /\ swallowed' = IF impl = "js" THEN swallowed + 1 ELSE swallowed
  /\ UNCHANGED <<config, pc, server, port, errorLog, assertLog, spawns,
                 escaped, sess, address>>
  /\ UNCHANGED <<envVars, mgrVars>>

\* -------------------------------------------------------------------- Next
Next ==
  \/ JsLaunch
  \/ JsListening
  \/ JsServerError
  \/ TsLaunch
  \/ TsListening
  \/ TsServerError
  \/ CsStart
  \/ CsRunTask
  \/ CsSpawn
  \/ \E c \in Conns : Connect(c)
  \/ \E c \in Conns : AuthData(c)
  \/ \E c \in Conns : Line(c)
  \/ \E c \in Conns : Disconnect(c)

Spec == Init /\ [][Next]_vars

\* ----------------------------------------------------- the listener manager
\* A ReplServerManager driven by its own operations, as the unit tests drive
\* it: start (StartServerAsync / startServer) and stop (Dispose / close).
\* socks[k] is the k-th listening socket created (its port, whether it is
\* listening, the manager that created it); a manager's server field is 0
\* (null) or the index of the socket it holds.

\* new TcpListener(IPAddress.Loopback, 0) / server.listen(0, ...)
RequestedPort == 0

\* start and stop calls made so far, over all managers
RECURSIVE CallsUpTo(_, _)
CallsUpTo(ms, n) ==
  IF n = 0 THEN 0 ELSE Len(ms[n].hist) + CallsUpTo(ms, n - 1)
Calls(ms) == CallsUpTo(ms, MaxMgrs)

\* ports of the sockets that are listening
PortsInUse(ss) == {ss[k].port : k \in {j \in DOMAIN ss : ss[j].open}}

\* the operating system's answer to a bind: for a request of 0 any port
\* no listening socket holds, else the requested port if it is free
OsBind(requested, ss) ==
  IF requested = 0 THEN Ports \ PortsInUse(ss)
  ELSE {requested} \ PortsInUse(ss)

\* the requested port handed back instead of the bound one
LocalPortRequested(requested, assigned) == requested

\* ((IPEndPoint)_server.LocalEndpoint).Port / address.port
LocalPort(requested, assigned) == assigned

\* _server.Stop() without the null check: a stop on a null field raises
StopRaisesOnNull(srv) == srv = 0

\* _server?.Stop() / if (this.server): nothing is called on a null field
StopRaises(srv) == FALSE

\* TcpListener.Stop / net.Server.close: the socket no longer listens
StopSocket(ss, srv) ==
  IF srv = 0 THEN ss ELSE [ss EXCEPT ![srv] = [@ EXCEPT !.open = FALSE]]

\* StartServerAsync / startServer: a new listener replaces the server field
\* and is bound; a bind that fails raises and leaves the new listener unbound
StartServer(m) ==
  /\ Calls(mgr) < MaxCalls
  /\ \/ \E p \in OsBind(RequestedPort, socks) :
          /\ socks' = Append(socks, [port |-> p, open |-> TRUE, by |-> m])
          /\ mgr' = [mgr EXCEPT ![m] =
                       [@ EXCEPT !.server = Len(socks) + 1,
                                 !.port = LocalPort(RequestedPort, p),
                                 !.hist = Append(@, "start")]]
     \/ /\ OsBind(RequestedPort, socks) = {}
        /\ socks' = Append(socks, [port |-> 0, open |-> FALSE, by |-> m])
        /\ mgr' = [mgr EXCEPT ![m] =
                     [@ EXCEPT !.server = Len(socks) + 1,
                               !.port = 0,
                               !.hist = Append(@, "start"),
                               !.raised = "start"]]
  /\ UNCHANGED <<config, pc, server, port, errorLog, assertLog, spawns,
                 swallowed, escaped, sess, address, lateErrors>>
  /\ UNCHANGED envVars

\* ReplServerManager.Dispose / close
Dispose(m) ==
  /\ Calls(mgr) < MaxCalls
  /\ socks' = StopSocket(socks, mgr[m].server)
  /\ mgr' = [mgr EXCEPT ![m] =
               [@ EXCEPT !.server = 0,
                         !.hist = Append(@, "stop"),
                         !.raised = IF StopRaises(mgr[m].server) THEN "stop"
                                    ELSE @]]
  /\ UNCHANGED <<config, pc, server, port, errorLog, assertLog, spawns,
                 swallowed, escaped, sess, address, lateErrors>>
  /\ UNCHANGED envVars

\* managers constructed, no launch under way
InitManager ==
  /\ impl \in {"ts", "cs"}
  /\ platform = "win32"
  /\ options = NoOptions
  /\ config = NoConfig
  /\ pc = "idle"
  /\ server = "none"
  /\ port = 0
  /\ address = "none"
  /\ errorLog = <<>>
  /\ assertLog = <<>>
  /\ spawns = <<>>
  /\ swallowed = 0
  /\ escaped = FALSE
  /\ sess = [c \in Conns |-> NoSession]
  /\ lateErrors = 0
  /\ mgr = [m \in Mgrs |-> NoManager]
  /\ socks = <<>>
  /\ launches = NoLaunches
  /\ loop = NoLoop

NextManager ==
  \/ \E m \in Mgrs : StartServer(m)
  \/ \E m \in Mgrs : Dispose(m)

SpecManager == InitManager /\ [][NextManager]_vars

\* ----------------------------------------------------- the command builder
\* The launch from the point where the command is built, for every title of
\* up to MaxTitleLen characters over TitleChars.
TitleChars == {"t", "'", " ", "a"}
AllTitles == UNION {[1..n -> TitleChars] : n \in 0..MaxTitleLen}

ConfigOf(i, o) ==
  CASE i = "js" -> JsDefaults(o)
    [] i = "ts" -> applyDefaults(o)
    [] i = "cs" -> ApplyDefaults(o)

InitEscape ==
  /\ impl \in Impls
  /\ platform = "win32"
  /\ options \in {[o EXCEPT !.title = ti] :
                    o \in {so \in OptionSets(impl) :
                             so.default = Absent /\ so.eval = Absent},
                    ti \in {Absent} \cup {Str(s) : s \in AllTitles}}
  /\ config = ConfigOf(impl, options)
  /\ IF impl = "cs"
     THEN pc = "bound" /\ server = "bound" /\ port \in Ports
          /\ address = "object"
     ELSE pc = "listening" /\ server = "created" /\ port = 0
          /\ address = "none"
  /\ errorLog = <<>>
  /\ assertLog = <<>>
  /\ spawns = <<>>
  /\ swallowed = 0
  /\ escaped = FALSE
  /\ sess = [c \in Conns |-> NoSession]
  /\ lateErrors = 0
  /\ mgr = [m \in Mgrs |-> NoManager]
  /\ socks = <<>>
  /\ launches = NoLaunches
  /\ loop = NoLoop

NextEscape ==
  \/ JsListening
  \/ TsListening
  \/ CsSpawn

SpecEscape == InitEscape /\ [][NextEscape]_vars

\* ------------------------------------------------- sessions after a launch
\* The sessions of a debugger that has been launched: the listener is
\* bound and the terminal spawned.
InitSessions ==
  /\ impl \in Impls
  /\ platform = "win32"
  /\ options \in OptionSets(impl)
  /\ config = ConfigOf(impl, options)
  /\ pc = "started"
  /\ server = "bound"
  /\ port \in Ports
  /\ address = "object"
  /\ spawns = <<SpawnCall(config, port)>>
  /\ errorLog = <<>>
  /\ assertLog = <<>>
  /\ swallowed = 0
  /\ escaped = FALSE
  /\ sess = [c \in Conns |-> NoSession]
  /\ lateErrors = 0
  /\ mgr = [m \in Mgrs |-> NoManager]
  /\ socks = <<>>
  /\ launches = NoLaunches
  /\ loop = NoLoop

NextSessions ==
  \/ \E c \in Conns : Connect(c)
  \/ \E c \in Conns : AuthData(c)
  \/ \E c \in Conns : Line(c)
  \/ \E c \in Conns : Disconnect(c)

SpecSessions == InitSessions /\ [][NextSessions]_vars

\* ------------------------------------------------------------- the network
\* The launch and what the network brings to the listener: connections any
\* peer can attempt, through either kind of interface, and 'error' events
\* of the listening server.
ConnectFrom(c) ==
  /\ Budget /\ server = "bound" /\ sess[c].st = "none"
  /\ AcceptReady(sess)
  /\ \E iface \in Interfaces :
       /\ Accepts(BindHost(impl), iface)
       /\ sess' = [sess EXCEPT ![c] = [OnConnect(impl, @) EXCEPT !.via = iface]]
  /\ UNCHANGED <<config, pc, server, port, errorLog, assertLog, spawns,
                 swallowed, escaped>>
  /\ UNCHANGED <<envVars, mgrVars, address, lateErrors>>

NextNet ==
  \/ JsLaunch
  \/ JsListening
  \/ JsServerError
  \/ TsLaunch
  \/ TsListening
  \/ TsServerError
  \/ CsStart
  \/ CsRunTask
  \/ CsSpawn
  \/ \E c \in Conns : ConnectFrom(c)
  \/ LateServerError

SpecNet == Init /\ [][NextNet]_vars

\* ------------------------------------------------------- the handler task
\* ReplServerManager.HandleClientAsync step by step.  The client may send
\* lines at any time (inbox); the handler is either waiting in
\* ReadLineAsync (cur empty) or between reading a line and the end of the
\* loop body (cur holds the line).  Line(c) above is Arrive, Take and
\* Finish in one step.

\* a handler that reads on while a line is still being handled
TakeAnyTime(s) == TRUE

\* while ((line = await reader.ReadLineAsync()) != null): the next read is
\* issued only after the prompt at the end of the loop body is written
TakeReady(s) == s.cur = <<>>

\* the client writes a line to the stream
Arrive(c) ==
  /\ Budget /\ sess[c].st = "active" /\ Len(sess[c].arrived) < MaxLines
  /\ \E line \in Lines :
       sess' = [sess EXCEPT ![c] = [@ EXCEPT !.inbox = Append(@, line),
                                            !.arrived = Append(@, line)]]
  /\ UNCHANGED <<config, pc, server, port, errorLog, assertLog, spawns,
                 swallowed, escaped>>
  /\ UNCHANGED <<envVars, mgrVars, address, lateErrors>>

\* ReadLineAsync completes with the oldest unread line; its handling begins
Take(c) ==
  /\ sess[c].st = "active" /\ sess[c].inbox # <<>> /\ TakeReady(sess[c])
  /\ sess' = [sess EXCEPT ![c] = [@ EXCEPT !.cur = <<Head(sess[c].inbox)>>,
                                          !.inbox = Tail(@),
                                          !.begun = Append(@, Head(sess[c].inbox))]]
  /\ UNCHANGED <<config, pc, server, port, errorLog, assertLog, spawns,
                 swallowed, escaped>>
  /\ UNCHANGED <<envVars, mgrVars, address, lateErrors>>

\* the rest of the loop body: the result or the error text and the prompt
\* are written
Finish(c) ==
  /\ sess[c].st = "active" /\ sess[c].cur # <<>>
  /\ sess' = [sess EXCEPT ![c] =
                [ProcessLine(impl, config, @, sess[c].cur[1]) EXCEPT !.cur = <<>>]]
  /\ UNCHANGED <<config, pc, server, port, errorLog, assertLog, spawns,
                 swallowed, escaped>>
  /\ UNCHANGED <<envVars, mgrVars, address, lateErrors>>

InitPipe == InitSessions /\ impl = "cs"

NextPipe ==
  \/ \E c \in Conns : Connect(c)
  \/ \E c \in Conns : Arrive(c)
  \/ \E c \in Conns : Take(c)
  \/ \E c \in Conns : Finish(c)

SpecPipe == InitPipe /\ [][NextPipe]_vars

\* ------------------------------------------------------------------ claims
HasSecret == config.password # Absent
FirstMatches(s) == s.got /\ Trim(s.first) = config.password.s
FirstMismatches(s) == s.got /\ Trim(s.first) # config.password.s
NoPrompt(out) == \A i \in DOMAIN out : out[i] # "prompt"
Responses(out) == Cardinality({i \in DOMAIN out : out[i] \in {"result", "error"}})
\* the configured evaluator raises on this line
Raises(line) == Trim(line) # <<>> /\ ~Evaluator(EvalOf(options), line).ok
\* the default value the caller configured; an absent one is undefined in
\* JavaScript and null in C#
ConfiguredDefault ==
  IF options.default # Absent THEN options.default
  ELSE IF impl = "cs" THEN Null ELSE Undefined

\* C1: with a secret configured, a connection whose first inbound data does
\* not match it (after trimming) is closed, and no prompt marker is ever
\* written to it, in every later state of the run.
C1_MismatchClosesWithoutPrompt ==
  \A c \in Conns :
    (HasSecret /\ FirstMismatches(sess[c]))
      => (sess[c].st = "closed" /\ NoPrompt(sess[c].out))

C1_Witness ==
  \E c \in Conns :
    /\ HasSecret /\ FirstMismatches(sess[c])
    /\ sess[c].st = "closed" /\ sess[c].closedBy = "auth"

\* C2: with a secret configured, a connection has had a line processed
\* (evaluator or default-value path) only if its first inbound chunk matched
\* the secret.
C2_EvalOnlyAfterMatch ==
  \A c \in Conns :
    (HasSecret /\ sess[c].nlines > 0) => FirstMatches(sess[c])

C2_Witness ==
  \E c \in Conns :
    /\ HasSecret /\ FirstMatches(sess[c])
    /\ sess[c].nlines > 0 /\ sess[c].last.calls # <<>>

\* C3: for every configured secret, a client whose first data is the secret
\* followed by a newline is not closed by the handshake, and the first thing
\* written to it is the prompt marker.
C3_SecretLineAdmits ==
  \A c \in Conns :
    (HasSecret /\ sess[c].got /\ sess[c].first = config.password.s \o <<"\n">>)
      => /\ sess[c].closedBy # "auth"
         /\ sess[c].out # <<>>
         /\ sess[c].out[1] = "prompt"

\* C4: a session runs the authentication check at most once: the listener
\* is gone after the first data event, so later data never re-runs the
\* check, and a failed attempt leaves the stream closed.
C4_SingleAuthAttempt ==
  \A c \in Conns :
    /\ sess[c].tries <= 1
    /\ (sess[c].tries = 1 => ~sess[c].listener)
    /\ ((HasSecret /\ FirstMismatches(sess[c])) => ~Open(sess[c]))

C4_Witness ==
  \E c \in Conns :
    sess[c].tries = 1 /\ sess[c].nlines >= 1 /\ sess[c].st = "active"

\* C5: a line on which the evaluator raises is answered with an error
\* followed by the next prompt, the session is never closed by the failure,
\* and every line, also one after a failure, gets its response.
C5_EvalFailureKeepsSession ==
  \A c \in Conns :
    LET s == sess[c]
        n == Len(s.out)
    IN /\ s.closedBy # "error"
       /\ Responses(s.out) = s.nlines
       /\ (s.nlines > 0 /\ Raises(s.last.line))
            => /\ n >= 2
               /\ s.out[n - 1] = "error"
               /\ s.out[n] = "prompt"
               /\ (s.st = "active" \/ s.closedBy = "client")

C5_Witness ==
  \E c \in Conns :
    /\ sess[c].st = "active" /\ sess[c].last.calls # <<>>
    /\ \E i, j \in DOMAIN sess[c].out :
         i < j /\ sess[c].out[i] = "error" /\ sess[c].out[j] = "result"

\* C6: for every blank line and every configured default value (absent and
\* null included), the result of the line is exactly the configured default
\* and the evaluator is not invoked.
C6_BlankLineGivesDefault ==
  \A c \in Conns :
    (sess[c].nlines > 0 /\ Trim(sess[c].last.line) = <<>>)
      => /\ sess[c].last.calls = <<>>
         /\ sess[c].last.cbs = <<[err |-> Null, val |-> ConfiguredDefault]>>

\* C7: for every non-blank line the evaluator is invoked exactly once, with
\* the line as received (untrimmed), and what it returns is the result
\* delivered for the line.
C7_NonBlankEvaluatedOnce ==
  \A c \in Conns :
    LET s == sess[c]
        r == Evaluator(EvalOf(options), s.last.line)
    IN (s.nlines > 0 /\ Trim(s.last.line) # <<>>)
         => /\ s.last.calls = <<s.last.line>>
            /\ r.ok => /\ s.last.cbs = <<[err |-> Null, val |-> r.val]>>
                       /\ s.out[Len(s.out) - 1] = "result"

C7_Witness ==
  \E c \in Conns :
    /\ sess[c].nlines > 0
    /\ sess[c].last.line = <<" ", "a">>
    /\ sess[c].last.calls = <<<<" ", "a">>>>
    /\ sess[c].last.cbs = <<[err |-> Null, val |-> Str(<<" ", "a">>)]>>

C9_UnsupportedPlatformAborts ==
  platform # "win32"
    => /\ server = "none"
       /\ spawns = <<>>
       /\ (pc = "failed" => errorLog = <<Report(MsgPlatform)>>)

\* C10: the spawner is invoked at most once per launch, never while the
\* listener is unbound, and the command it receives names the bound port.
C10_SpawnAfterBind ==
  /\ Len(spawns) <= 1
  /\ (server \in {"none", "created"} => spawns = <<>>)
  /\ (spawns # <<>> => (port \in Ports /\ spawns[1].cmd.port = port))

C10_Witness ==
  /\ spawns # <<>>
  /\ port = MaxPort
  /\ spawns[1].cmd.port = MaxPort

\* C11: if, once listening, the server reports an absent or a string
\* address, the start fails with 'Invalid server address', that failure is
\* reported as 'Failed to start Windows debugger:', the launch stays failed
\* (no second attempt) and the terminal spawner is not invoked.
C11_InvalidAddressReported ==
  address \in {"string", "null"} =>
    /\ errorLog = <<Report(MsgAddress)>>
    /\ pc = "failed"
    /\ spawns = <<>>

\* C12: whenever the listening server emits an 'error' event, the launch
\* reports that error as 'Failed to start Windows debugger:', also when the
\* event arrives after the listen callback has fired.
C12_ServerErrorReported ==
  impl = "ts" /\ (server = "closed" \/ lateErrors > 0) =>
    \E i \in DOMAIN errorLog : errorLog[i] = Report(MsgListen)

\* the manager holds a socket that is listening
Listening(m) == mgr[m].server # 0 /\ socks[mgr[m].server].open
Last(h) == IF h = <<>> THEN "none" ELSE h[Len(h)]

\* C13: the stop operation of the listener is idempotent: a stop never
\* raises, and a stop called before any start or straight after another
\* stop leaves the manager and every socket as the previous call left them.
C13_StopIdempotent ==
  [][\A m \in Mgrs :
       Dispose(m) =>
         /\ mgr'[m].raised = mgr[m].raised
         /\ Last(mgr[m].hist) \in {"none", "stop"} =>
              /\ socks' = socks
              /\ mgr'[m].server = mgr[m].server
              /\ mgr'[m].port = mgr[m].port]_vars
C13_Witness ==
  /\ mgr[1].hist = <<"start", "stop", "stop">>
  /\ mgr[2].hist = <<"stop">>
  /\ \A m \in Mgrs : mgr[m].raised = "none" /\ ~Listening(m)

\* C14: two listeners started in one process and both open have distinct
\* ports, each non-zero and within the port range.
C14_DistinctPorts ==
  \A m1, m2 \in Mgrs :
    m1 # m2 /\ Listening(m1) /\ Listening(m2) =>
      /\ mgr[m1].port # mgr[m2].port
      /\ mgr[m1].port \in Ports
      /\ mgr[m2].port \in Ports
C14_Witness == Listening(1) /\ Listening(2)

\* what a reader of a single-quoted literal makes of its inside: a doubled
\* quote is one quote, a lone quote ends the literal
RECURSIVE Undouble(_)
Undouble(s) ==
  IF s = <<>> THEN <<>>
  ELSE IF Head(s) # "'" THEN <<Head(s)>> \o Undouble(Tail(s))
  ELSE IF Len(s) >= 2 /\ s[2] = "'" THEN <<"'">> \o Undouble(Tail(Tail(s)))
  ELSE <<>>
Quotes(s) == Cardinality({k \in DOMAIN s : s[k] = "'"})
NonQuotes(s) == SelectSeq(s, LAMBDA ch : ch # "'")
\* every maximal run of quotes has even length
RECURSIVE QuotesPaired(_)
QuotesPaired(s) ==
  IF s = <<>> THEN TRUE
  ELSE IF Head(s) # "'" THEN QuotesPaired(Tail(s))
  ELSE Len(s) >= 2 /\ s[2] = "'" /\ QuotesPaired(Tail(Tail(s)))

\* C15: for every title, the command handed to the spawner holds the title
\* with each single quote doubled and no undoubled quote inside the quoted
\* title, every other character unchanged; un-doubling the quotes of the
\* escaped title gives the title back.
C15_TitleEscaped ==
  \A k \in DOMAIN spawns :
    LET quoted == spawns[k].cmd.title IN
    /\ QuotesPaired(quoted)
    /\ Quotes(quoted) = 2 * Quotes(config.title)
    /\ NonQuotes(quoted) = NonQuotes(config.title)
    /\ Undouble(quoted) = config.title
C15_Witness ==
  /\ spawns # <<>>
  /\ options.title = Str(<<"'", "t", "'">>)
  /\ spawns[1].cmd.title = <<"'", "'", "t", "'", "'">>

\* C16: whenever the listener is bound, it is bound to the loopback
\* interface on a port the operating system assigned (requested port 0),
\* and no connection that arrived on another interface has been accepted.
C16_LoopbackOnly ==
  /\ server = "bound" =>
       BindHost(impl) = "loopback" /\ RequestedPort = 0 /\ port \in Ports
  /\ \A c \in Conns : sess[c].via # "external"

IsPrefix(a, b) == Len(a) <= Len(b) /\ SubSeq(b, 1, Len(a)) = a

\* C17: within a session lines are handled in arrival order, one at a
\* time: the handling of a line never begins before the response to the
\* line before it has been written to the stream.
C17_OneLineAtATime ==
  \A c \in Conns :
    /\ IsPrefix(sess[c].begun, sess[c].arrived)
    /\ Len(sess[c].begun) <= Responses(sess[c].out) + 1
    /\ sess[c].cur # <<>> =>
         /\ Len(sess[c].begun) = Responses(sess[c].out) + 1
         /\ sess[c].cur[1] = sess[c].begun[Len(sess[c].begun)]
    /\ sess[c].nlines > 0 =>
         sess[c].last.line = sess[c].arrived[sess[c].nlines]
C17_Witness ==
  \E c \in Conns :
    /\ Len(sess[c].arrived) = 2
    /\ sess[c].arrived[1] # sess[c].arrived[2]
    /\ Len(sess[c].begun) = 2 /\ sess[c].cur # <<>>
    /\ Responses(sess[c].out) = 1

\* the output after the greeting the C# handler sends first
AfterBanner(out) ==
  IF out # <<>> /\ out[1] = "banner" THEN Tail(out) ELSE out
Prompts(out) == Cardinality({k \in DOMAIN out : out[k] = "prompt"})

\* C18: on an active session the output alternates prompt and response: a
\* prompt when the session becomes ready, then for each input line exactly
\* one result-or-error line followed by exactly one prompt; after k lines
\* there are k responses and k + 1 prompts.
C18_PromptResponseAlternate ==
  \A c \in Conns :
    sess[c].st = "active" =>
      LET o == AfterBanner(sess[c].out) IN
      /\ Len(o) = 2 * sess[c].nlines + 1
      /\ \A k \in DOMAIN o :
           IF k % 2 = 1 THEN o[k] = "prompt" ELSE o[k] \in {"result", "error"}
      /\ Responses(sess[c].out) = sess[c].nlines
      /\ Prompts(sess[c].out) = sess[c].nlines + 1
C18_Witness ==
  \E c \in Conns :
    /\ impl = "cs" /\ sess[c].st = "active"
    /\ sess[c].out = <<"banner", "prompt", "error", "prompt", "result", "prompt">>

\* C19: an authentication failure on one connection ends only that
\* connection: the step that closes it leaves the listener bound, every
\* other session as it was, and the launch's error channel untouched.
C19_AuthFailureIsLocal ==
  [][\A c \in Conns :
       sess[c].closedBy # "auth" /\ sess'[c].closedBy = "auth" =>
         /\ server' = "bound" /\ port' = port
         /\ \A d \in Conns \ {c} : sess'[d] = sess[d]
         /\ errorLog' = errorLog /\ assertLog' = assertLog
         /\ swallowed' = swallowed /\ escaped' = escaped
         /\ pc' = pc /\ spawns' = spawns]_vars
C19_Witness ==
  /\ server = "bound" /\ errorLog = <<>>
  /\ sess[1].closedBy = "auth" /\ FirstMismatches(sess[1])
  /\ sess[2].st = "active" /\ sess[2].nlines > 0

\* a step of the program that changes two sessions at once
TwoSessionsStep ==
  /\ NextSessions
  /\ \E c, d \in Conns : c # d /\ sess'[c] # sess[c] /\ sess'[d] # sess[d]

\* C20: with several sessions connected, each is its own state machine (no
\* step changes two of them), and whatever the other sessions are waiting
\* for, a connection is accepted, an authentication chunk is handled and a
\* line that has arrived on a session is evaluated and answered.
C20_SessionsIndependent ==
  /\ ~ENABLED TwoSessionsStep
  /\ \A c \in Conns :
       Budget =>
         /\ server = "bound" /\ sess[c].st = "none" => ENABLED Connect(c)
         /\ sess[c].st = "awaitingAuth" /\ sess[c].tries < MaxLines =>
              ENABLED AuthData(c)
         /\ sess[c].st = "active" /\ TotalLines(sess) < MaxLines =>
              ENABLED Line(c)
C20_Witness ==
  \E c, d \in Conns :
    /\ sess[c].st = "awaitingAuth" /\ sess[c].tries = 0
    /\ sess[d].st = "active" /\ sess[d].nlines = MaxLines
    /\ Responses(sess[d].out) = MaxLines

\* position of a session state along none, AwaitingAuth, Active, Closed
Rank(st) ==
  CASE st = "none" -> 0
    [] st = "awaitingAuth" -> 1
    [] st = "active" -> 2
    [] st = "closed" -> 3

\* C21: a session's state only moves forward along AwaitingAuth, Active,
\* Closed; Closed is terminal: a closed session never changes again, a
\* session whose stream was closed is in no other state, and a line is only
\* evaluated in an active session.
C21_StateMovesForward ==
  [][\A c \in Conns :
       /\ Rank(sess'[c].st) >= Rank(sess[c].st)
       /\ sess[c].st = "closed" => sess'[c] = sess[c]
       /\ sess'[c].closedBy # "none" => sess'[c].st = "closed"
       /\ sess'[c].nlines # sess[c].nlines => sess[c].st = "active"]_vars
C21_Witness ==
  \E c \in Conns :
    /\ impl = "js" /\ FirstMatches(sess[c]) /\ sess[c].nlines > 0
    /\ sess[c].st = "closed" /\ sess[c].closedBy = "client"

\* C22: whenever a launch aborts after its listener has been bound (the
\* spawn fails, or the bound address is rejected), the bound listener is
\* closed: a failed launch leaves no listening socket open.
C22_FailedLaunchClosesListener ==
  impl \in {"ts", "cs"} /\ pc = "failed" => server # "bound"

\* C23: every fatal launch failure puts exactly one diagnostic message on
\* the error channel (not zero, not two), and in that launch no terminal
\* window is spawned.
C23_OneDiagnosticPerFailure ==
  pc = "failed" => Len(errorLog) = 1 /\ spawns = <<>>

\* C24: stop closes the listening socket and all open sessions: once the
\* listener is stopped no session of it is still awaiting its secret or
\* active (and, the listener being closed, none is accepted any more).
C24_StopClosesSessions ==
  server = "closed" => \A c \in Conns : ~Open(sess[c])

\* every secret a launch can run with
Secrets == Passwords \cup {Token}

\* C25: the secret reaches the spawned client only through the environment
\* (REPL_PASSWORD): the arguments handed to the spawner are the same
\* whatever the secret is, for every secret and title, and the environment
\* entry is the secret.
C25_SecretOnlyInEnvironment ==
  \A k \in DOMAIN spawns :
    /\ spawns[k].env = config.password
    /\ DOMAIN spawns[k].cmd = {"title", "port"}
    /\ \A pw \in Secrets :
         SpawnCall([config EXCEPT !.password = Str(pw)], port).cmd
           = spawns[k].cmd
C25_Witness ==
  /\ impl = "js" /\ spawns # <<>>
  /\ options.password = Str(<<"a">>) /\ options.title = Str(<<"a">>)
  /\ spawns[1].env = Str(<<"a">>)

\* sessions admitted to the prompt loop on the strength of their first data
Admitted == {c \in Conns : HasSecret /\ FirstMatches(sess[c]) /\ ~NoPrompt(sess[c].out)}

\* C26: when no password is supplied, the token generated at startup is
\* one-time: once one connection has authenticated with it, no later
\* connection presenting the same token is admitted to the prompt loop.
C26_TokenIsOneTime ==
  impl = "js" /\ options.password = Absent => Cardinality(Admitted) <= 1

\* C27: a per-line failure in an active session (the evaluator raises) is
\* delivered only on that session's own output: the step writes the error
\* text and the next prompt there, reports nothing on the launch's error
\* channel, leaves every other session as it was and does not change the
\* listener.
C27_LineFailureStaysInSession ==
  [][\A c \in Conns :
       sess'[c].nlines = sess[c].nlines + 1 /\ Raises(sess'[c].last.line) =>
         /\ sess'[c].out = sess[c].out \o <<"error", "prompt">>
         /\ \A d \in Conns \ {c} : sess'[d] = sess[d]
         /\ errorLog' = errorLog /\ assertLog' = assertLog
         /\ swallowed' = swallowed /\ escaped' = escaped
         /\ server' = server /\ port' = port /\ pc' = pc]_vars
C27_Witness ==
  /\ sess[1].st = "active" /\ sess[1].nlines = 1 /\ Raises(sess[1].last.line)
  /\ sess[2].st = "active" /\ sess[2].nlines = 1 /\ ~Raises(sess[2].last.line)
  /\ sess[2].out[Len(sess[2].out) - 1] = "result"
  /\ errorLog = <<>> /\ server = "bound"


\* the value the last processed line of a session handed to the formatter
Formatted(s) == s.last.cbs[Len(s.last.cbs)].val

\* the session has answered a line with a formatted value
Answered(s) ==
  /\ s.nlines > 0
  /\ s.last.cbs # <<>>
  /\ s.last.cbs[Len(s.last.cbs)].err = Null
  /\ s.closedBy # "error"

\* C29: the text sent for a null value is the fixed placeholder and the text
\* sent for a string value is the string itself, nothing added; a blank line
\* under a string default is answered with exactly that string.
C29_StringPassedVerbatim ==
  \A c \in Conns :
    Answered(sess[c]) =>
      /\ Formatted(sess[c]).kind = "null" =>
           \E k \in DOMAIN sess[c].last.text : sess[c].last.text[k] = "null"
      /\ Formatted(sess[c]).kind = "str" =>
           sess[c].last.text = Formatted(sess[c]).s
      /\ Trim(sess[c].last.line) = <<>> /\ config.default.kind = "str" =>
           sess[c].last.text = config.default.s


\* ----------------------------------------------- formatting and writing
\* Whether the client's stream takes a write.  A stream the peer has reset
\* makes WriteLineAsync raise.
Writable(i) == IF i = "cs" THEN BOOLEAN ELSE {TRUE}

\* One line of the read loop on a stream that may refuse the write: the
\* WriteLineAsync of the try block raises, the one of the catch block raises
\* again, and the handler is left through its using declarations.
ProcessWritten(i, cfg, s, line, writable) ==
  IF writable THEN ProcessLine(i, cfg, s, line)
  ELSE [ProcessLine(i, cfg, s, line) EXCEPT !.st = "closed",
                                            !.closedBy = "write",
                                            !.out = s.out,
                                            !.last.text = <<>>]

\* a line of any kind reaches the evaluation loop of an active session
AnyLine(c) ==
  /\ Budget /\ sess[c].st = "active" /\ TotalLines(sess) < MaxLines
  /\ \E line \in Lines \cup FormatLines, writable \in Writable(impl) :
       sess' = [sess EXCEPT ![c] =
                  ProcessWritten(impl, config, @, line, writable)]
  /\ UNCHANGED <<config, pc, server, port, errorLog, assertLog, spawns,
                 swallowed, escaped>>
  /\ UNCHANGED <<envVars, mgrVars, address, lateErrors>>

NextFormat ==
  \/ \E c \in Conns : Connect(c)
  \/ \E c \in Conns : AuthData(c)
  \/ \E c \in Conns : AnyLine(c)

SpecFormat == InitSessions /\ [][NextFormat]_vars

\* the step processes a line in session c
LineStep(c) == sess'[c].nlines = sess[c].nlines + 1

\* the line processed in the step was answered and the session goes on
AnsweredAndActive(c) ==
  /\ sess'[c].st = "active"
  /\ \E kind \in {"result", "error"} :
       sess'[c].out = sess[c].out \o <<kind, "prompt">>

\* C28 as stated: a failure while formatting or writing the result of a
\* line is rendered to the client and the session stays active with the
\* next prompt; no line ends its session.
C28_NoLineFailureEndsSession ==
  [][\A c \in Conns : LineStep(c) => AnsweredAndActive(c)]_vars

\* C28: a failure while formatting the result of a line is caught and
\* rendered to the client as an error text, and the session stays active
\* with the next prompt; a line ends its session only when the stream
\* refuses the write.
C28_FormatFailureRendered ==
  [][\A c \in Conns :
       LineStep(c) =>
         \/ sess'[c].st = "closed" /\ sess'[c].closedBy = "write"
         \/ /\ AnsweredAndActive(c)
            /\ Trim(sess'[c].last.line) \in FormatLines =>
                 /\ sess'[c].out = sess[c].out \o <<"error", "prompt">>
                 /\ sess'[c].last.text = ErrorText(impl, Unprintable.s)]_vars

C28_Witness ==
  \E c \in Conns :
    /\ sess[c].st = "active"
    /\ sess[c].nlines = MaxLines
    /\ sess[c].last.line \in FormatLines
    /\ sess[c].last.text = ErrorText(impl, Unprintable.s)
    /\ Len(sess[c].out) >= 2
    /\ sess[c].out[Len(sess[c].out) - 1] = "error"
    /\ sess[c].out[Len(sess[c].out)] = "prompt"


\* C30: the configuration (title, default value, evaluator, secret) is the
\* one fixed at launch: accepting a connection, authenticating, processing
\* a line and closing a session all leave it, and the options it was built
\* from, unchanged.
C30_ConfigurationFixed ==
  [][/\ config' = config
     /\ options' = options
     /\ config = ConfigOf(impl, options)]_vars

C30_Witness ==
  \E c, d \in Conns :
    /\ c # d
    /\ sess[c].st = "closed" /\ sess[c].closedBy = "client"
    /\ sess[c].nlines > 0
    /\ sess[d].st # "none"
    /\ config = ConfigOf(impl, options)


\* ------------------------------------------------- the defaults of a launch
\* The launch for every options object, the one with nothing supplied
\* included.
AllOptionSets(i) ==
  {[o EXCEPT !.title = ti] : o \in OptionSets(i),
                             ti \in {Absent} \cup {Str(t) : t \in Titles}}

InitDefaults ==
  /\ impl \in Impls
  /\ platform \in Platforms
  /\ options \in AllOptionSets(impl)
  /\ config = NoConfig
  /\ pc = "idle"
  /\ server = "none"
  /\ port = 0
  /\ errorLog = <<>>
  /\ assertLog = <<>>
  /\ spawns = <<>>
  /\ swallowed = 0
  /\ escaped = FALSE
  /\ sess = [c \in Conns |-> NoSession]
  /\ address = "none"
  /\ lateErrors = 0
  /\ mgr = [m \in Mgrs |-> NoManager]
  /\ socks = <<>>
  /\ launches = NoLaunches
  /\ loop = NoLoop

NextDefaults ==
  \/ JsLaunch
  \/ JsListening
  \/ JsServerError
  \/ TsLaunch
  \/ TsListening
  \/ TsServerError
  \/ CsStart
  \/ CsRunTask
  \/ CsSpawn

SpecDefaults == InitDefaults /\ [][NextDefaults]_vars

\* the launch has read its options
OptionsRead ==
  /\ pc # "idle"
  /\ impl = "cs" => pc # "scheduled"
  /\ impl \in {"ts", "cs"} => platform = "win32"

\* C31: each of title, default and eval of the effective configuration is
\* the caller's value when one is supplied and the documented default
\* otherwise (title "Windows Debugger", no default value, the native
\* evaluator); a launch with nothing supplied is accepted.
C31_DefaultsApplied ==
  OptionsRead =>
    /\ config # NoConfig
    /\ config.title = IF options.title = Absent THEN DefaultTitle
                      ELSE options.title.s
    /\ config.default = IF options.default # Absent THEN options.default
                        ELSE IF impl = "cs" THEN Null ELSE Undefined
    /\ config.eval = IF options.eval = Absent THEN "native" ELSE "custom"


\* C32: every accepted connection has exactly one session handler: never two
\* evaluation loops on one connection, and no open connection without its
\* handler (the evaluation loop, or in index.js the listener waiting for the
\* first chunk).
C32_OneHandlerPerConnection ==
  \A c \in Conns :
    sess[c].st # "none" =>
      /\ sess[c].loops <= 1
      /\ impl \in {"ts", "cs"} => sess[c].loops = 1
      /\ Open(sess[c]) => (sess[c].listener /\ sess[c].loops = 0)
                          \/ (~sess[c].listener /\ sess[c].loops = 1)
      /\ sess[c].st = "active" => sess[c].loops = 1

C32_Witness ==
  \E c, d \in Conns :
    /\ c # d
    /\ sess[c].st = "active" /\ sess[c].loops = 1 /\ sess[c].nlines > 0
    /\ sess[d].st = "active" /\ sess[d].loops = 1


\* C33: for every input line the eval wrapper of index.js / index.ts invokes
\* the REPL's result callback exactly once, with a value or with an error
\* and never both, also when the callback invoked with the value raises.
C33_CallbackExactlyOnce ==
  \A c \in Conns :
    impl \in {"js", "ts"} /\ sess[c].nlines > 0 =>
      /\ Len(sess[c].last.cbs) = 1
      /\ sess[c].last.cbs[1].err = Null \/ sess[c].last.cbs[1].val = Undefined


\* C34: the first chunk of a connection goes to the authentication check
\* and nowhere else: the step that handles it processes no line and calls no
\* evaluator, and a line is processed only on a session whose check has
\* already succeeded.
C34_FirstChunkConsumedByAuth ==
  [][\A c \in Conns :
       impl = "js" =>
         /\ (~sess[c].got /\ sess'[c].got) =>
              /\ sess'[c].nlines = 0
              /\ sess'[c].last = NoLine
              /\ Responses(sess'[c].out) = 0
         /\ sess'[c].nlines # sess[c].nlines =>
              /\ FirstMatches(sess[c])
              /\ sess[c].st = "active"
              /\ ~sess[c].listener
              /\ sess'[c].first = sess[c].first]_vars

C34_Witness ==
  \E c \in Conns :
    /\ impl = "js"
    /\ sess[c].first = <<"a", "\n">> /\ FirstMatches(sess[c])
    /\ sess[c].nlines = 1
    /\ sess[c].last.calls = << <<" ", "a">> >>
    /\ Responses(sess[c].out) = 1


\* the last call made on manager m was a stop
StoppedLast(m) ==
  mgr[m].hist # <<>> /\ mgr[m].hist[Len(mgr[m].hist)] = "stop"

\* C35: whatever starts and stops were called on a listener manager, start
\* twice in a row included, after its final stop none of the listening
\* sockets it created is open.
C35_NoSocketLeftOpen ==
  \A m \in Mgrs :
    StoppedLast(m) =>
      \A k \in DOMAIN socks : socks[k].by = m => ~socks[k].open


\* ------------------------------------------------ two launches, one process
\* The debugger called twice in one process, each call with its own options.
\* Each call has its own closure (index.js) or its own ReplServerManager
\* (index.ts): its configuration, its listener, and the connection the
\* listener accepts.

\* the options of a call; the title plays no part after the spawn
TwoOptionSets(i) == {o \in OptionSets(i) : o.title = Str(<<"t", "'">>)}

\* module-level variables instead of the closure's: the handlers of every
\* listener read what the latest call stored
HandlerConfigLatest(ls, l) ==
  IF ls["B"].st = "started" THEN ls["B"].config ELSE ls[l].config

\* the configuration the handlers of launch l read
HandlerConfig(ls, l) == ls[l].config

\* the variables of the single launch
oneVars == <<impl, platform, options, config, pc, server, port, errorLog,
             assertLog, spawns, swallowed, escaped, sess, address,
             lateErrors, mgr, socks, loop>>

\* ports the listeners of the launches made so far hold
LaunchPorts(ls) == {ls[l].port : l \in {k \in LaunchIds : ls[k].st = "started"}}

\* events the connections of the two launches have handled
TwoEvents(ls) == EventsOf(ls["A"].s) + EventsOf(ls["B"].s)
TwoLines(ls) == ls["A"].s.nlines + ls["B"].s.nlines
TwoBudget == TwoEvents(launches) < MaxEvents

InitTwo ==
  /\ impl \in {"js", "ts"}
  /\ platform = "win32"
  /\ options = NoOptions
  /\ config = NoConfig
  /\ pc = "idle"
  /\ server = "none"
  /\ port = 0
  /\ address = "none"
  /\ errorLog = <<>>
  /\ assertLog = <<>>
  /\ spawns = <<>>
  /\ swallowed = 0
  /\ escaped = FALSE
  /\ sess = [c \in Conns |-> NoSession]
  /\ lateErrors = 0
  /\ mgr = [m \in Mgrs |-> NoManager]
  /\ socks = <<>>
  /\ launches \in [LaunchIds -> {[NoLaunch EXCEPT !.options = o] :
                                   o \in TwoOptionSets(impl)}]
  /\ loop = NoLoop

\* one call of the debugger, up to its listener being bound
LaunchOne(l) ==
  /\ launches[l].st = "idle"
  /\ \E p \in Ports \ LaunchPorts(launches) :
       launches' = [launches EXCEPT ![l] =
                      [@ EXCEPT !.st = "started",
                                !.config = ConfigOf(impl, launches[l].options),
                                !.port = p]]
  /\ UNCHANGED oneVars

\* a client connects to the port of launch l
ConnectTo(l) ==
  /\ TwoBudget /\ launches[l].st = "started" /\ launches[l].s.st = "none"
  /\ launches' = [launches EXCEPT ![l].s =
                    [OnConnect(impl, @) EXCEPT !.via = "loopback"]]
  /\ UNCHANGED oneVars

\* a data event reaches the authentication listener of launch l
AuthDataOn(l) ==
  /\ TwoBudget /\ Open(launches[l].s) /\ launches[l].s.listener
  /\ launches[l].s.tries < MaxLines
  /\ \E data \in Chunks :
       launches' = [launches EXCEPT ![l].s =
                      OnData(HandlerConfig(launches, l), @, data)]
  /\ UNCHANGED oneVars

\* a line reaches the evaluation loop of launch l's connection
LineOn(l) ==
  /\ TwoBudget /\ launches[l].s.st = "active"
  /\ TwoLines(launches) < MaxLines
  /\ \E line \in Lines :
       launches' = [launches EXCEPT ![l].s =
                      ProcessLine(impl, HandlerConfig(launches, l), @, line)]
  /\ UNCHANGED oneVars

NextTwo ==
  \/ \E l \in LaunchIds : LaunchOne(l)
  \/ \E l \in LaunchIds : ConnectTo(l)
  \/ \E l \in LaunchIds : AuthDataOn(l)
  \/ \E l \in LaunchIds : LineOn(l)

SpecTwo == InitTwo /\ [][NextTwo]_vars

\* the configuration launch l was called with
OwnConfig(l) == ConfigOf(impl, launches[l].options)

\* the result the last line of s has under configuration cfg
ResultUnder(cfg, s) ==
  IF Trim(s.last.line) = <<>> THEN [err |-> Null, val |-> cfg.default]
  ELSE LET r == Evaluator(cfg.eval, s.last.line)
       IN IF r.ok THEN [err |-> Null, val |-> r.val]
          ELSE [err |-> r.val, val |-> Undefined]

\* C36: with two launches in one process, a connection to a launch's port
\* is checked against that launch's secret only and its lines are evaluated
\* with that launch's evaluator and default value only, whatever the other
\* launch was configured with and however their events interleave.
C36_LaunchesIndependent ==
  \A l \in LaunchIds :
    LET s == launches[l].s
        own == OwnConfig(l)
    IN /\ launches[l].st = "started" => launches[l].config = own
       /\ impl = "js" /\ s.got =>
            /\ Trim(s.first) = own.password.s => s.closedBy # "auth"
            /\ Trim(s.first) # own.password.s =>
                 s.closedBy = "auth" /\ s.nlines = 0
       /\ s.nlines > 0 =>
            /\ s.last.cbs = <<ResultUnder(own, s)>>
            /\ s.last.calls = IF Trim(s.last.line) = <<>> THEN <<>>
                              ELSE <<s.last.line>>

\* both launches made with different secrets, defaults and evaluators; the
\* same chunk has admitted the client of A and not the client of B, and A
\* has answered a blank line with its own default
C36_Witness ==
  /\ impl = "js"
  /\ launches["A"].config.password # launches["B"].config.password
  /\ launches["A"].config.default = Str(<<"r">>)
  /\ launches["B"].config.default = Null
  /\ launches["A"].config.eval # launches["B"].config.eval
  /\ launches["A"].s.first = launches["B"].s.first
  /\ launches["A"].s.st = "active" /\ launches["B"].s.closedBy = "auth"
  /\ launches["A"].s.nlines = 1 /\ Trim(launches["A"].s.last.line) = <<>>
  /\ launches["A"].s.last.cbs = <<[err |-> Null, val |-> Str(<<"r">>)]>>


\* ------------------------------------------- the accept loop and Dispose
\* AcceptConnectionsAsync runs on a pool thread, one statement at a time;
\* Dispose runs on the caller's thread: Stop, then the field set to null.
MaxLog == 2

\* the variables the loop does not touch
restVars == <<impl, platform, options, config, pc, server, port, errorLog,
              assertLog, spawns, swallowed, escaped, sess, address,
              lateErrors, mgr, socks, launches>>

\* what a pending AcceptTcpClientAsync raises when the listener is stopped
\* under it: the runtime decides
StopExceptions == {"ObjectDisposed", "Socket"}

\* Console.Error.WriteLine in the catch-all of the loop
Logged(l) == [l EXCEPT !.log = IF @ < MaxLog THEN @ + 1 ELSE @]

\* StartServerAsync has returned: the listener is bound and the loop
\* scheduled
InitLoop ==
  /\ impl = "cs"
  /\ platform = "win32"
  /\ options \in OptionSets("cs")
  /\ config = ConfigOf("cs", options)
  /\ pc = "bound"
  /\ server = "bound"
  /\ port \in Ports
  /\ address = "object"
  /\ errorLog = <<>>
  /\ assertLog = <<>>
  /\ spawns = <<>>
  /\ swallowed = 0
  /\ escaped = FALSE
  /\ sess = [c \in Conns |-> NoSession]
  /\ lateErrors = 0
  /\ mgr = [m \in Mgrs |-> NoManager]
  /\ socks = <<>>
  /\ launches = NoLaunches
  /\ loop = [NoLoop EXCEPT !.srv = "listener", !.lst = "listening",
                           !.at = "test"]

\* while (_server != null)
LoopTest ==
  /\ loop.at = "test"
  /\ loop' = [loop EXCEPT !.at = IF loop.srv # "null" THEN "call" ELSE "done"]
  /\ UNCHANGED restVars

\* _server.AcceptTcpClientAsync(): the field is read again; a null field
\* raises NullReferenceException, a stopped listener
\* InvalidOperationException, both caught by catch (Exception)
LoopCall ==
  /\ loop.at = "call"
  /\ loop' = IF loop.srv = "null"
             THEN Logged([loop EXCEPT !.nre = 1, !.at = "test"])
             ELSE IF loop.lst = "stopped"
             THEN Logged([loop EXCEPT !.at = "test"])
             ELSE [loop EXCEPT !.at = "await"]
  /\ UNCHANGED restVars

\* a client connects while the accept is pending: the accept completes
ClientArrives ==
  /\ loop.at = "await" /\ loop.lst = "listening"
  /\ loop.clients < MaxConns
  /\ loop' = [loop EXCEPT !.at = "resume", !.clients = @ + 1]
  /\ UNCHANGED restVars

\* the continuation of the await: _ = Task.Run(() => HandleClientAsync(client))
LoopResume ==
  /\ loop.at = "resume"
  /\ loop' = [loop EXCEPT !.at = "test",
                          !.handlers = @ + 1,
                          !.late = IF loop.disp = "done" THEN 1 ELSE @]
  /\ UNCHANGED restVars

\* the catch blocks: ObjectDisposedException breaks, anything else is
\* written to Console.Error and the loop goes on
LoopCatch ==
  /\ loop.at = "raised"
  /\ loop' = IF loop.exc = "ObjectDisposed"
             THEN [loop EXCEPT !.at = "done", !.exc = "none"]
             ELSE Logged([loop EXCEPT !.at = "test", !.exc = "none"])
  /\ UNCHANGED restVars

\* Dispose, first statement: _server?.Stop(); a pending accept fails
DisposeStop ==
  /\ loop.disp = "none"
  /\ \E x \in StopExceptions :
       loop' = [loop EXCEPT !.disp = "stopped",
                            !.lst = "stopped",
                            !.at = IF @ = "await" THEN "raised" ELSE @,
                            !.exc = IF loop.at = "await" THEN x ELSE @]
  /\ UNCHANGED restVars

\* Dispose, second statement: _server = null
DisposeNull ==
  /\ loop.disp = "stopped"
  /\ loop' = [loop EXCEPT !.disp = "done", !.srv = "null"]
  /\ UNCHANGED restVars

NextLoop ==
  \/ LoopTest
  \/ LoopCall
  \/ ClientArrives
  \/ LoopResume
  \/ LoopCatch
  \/ DisposeStop
  \/ DisposeNull

\* the pool runs the loop's next statement, and a Dispose that has begun
\* returns
SpecLoop ==
  /\ InitLoop
  /\ [][NextLoop]_vars
  /\ WF_vars(LoopTest) /\ WF_vars(LoopCall) /\ WF_vars(LoopResume)
  /\ WF_vars(LoopCatch) /\ WF_vars(DisposeNull)

\* C37: however Dispose interleaves with the accept loop, the loop never
\* dereferences the field after Dispose has set it to null, it starts no
\* session handler after Dispose has returned, and once Dispose has
\* returned the loop terminates.
C37_LoopSafeUnderDispose ==
  /\ [](loop.nre = 0 /\ loop.late = 0)
  /\ (loop.disp = "done" ~> loop.at = "done")
====
